---------------------------- MODULE Spec2Model ----------------------------
(***************************************************************************)
(* A model of the archetype storage engine of bevy_hecs' World             *)
(* (crates/bevy_ecs/hecs/src/world.rs).                                    *)
(*                                                                         *)
(* Component values are modelled as tokens 1..MaxValues: every value moved *)
(* into the world is a distinct token, so that the fate of each value      *)
(* (dropped by the world, handed back to the caller) can be followed.      *)
(* Archetype ids and rows are 0-based as in the source: `archetypes` and   *)
(* the rows of an archetype are functions with domain 0..len-1.            *)
(***************************************************************************)
EXTENDS Integers, Sequences, FiniteSets, TLC

\* Bounds of the model.
MaxEntities == 2      \* number of calls of Entity::new() in a behaviour
MaxValues == 3        \* number of component values moved into the world
MaxBatch == 2         \* longest iterator handed to spawn_batch
MaxGuards == 2        \* number of Ref and RefMut guards alive at a time
MaxRows == 3          \* rows in the world when spawn_as_entity is given a chosen handle

\* The component types of the model, named by their TypeId (totally ordered):
\* values of the types in StoredTypes are moved into the world, the other
\* type is one that remove can be asked for and that no entity has.
StoredTypes == {1, 2}
Types == StoredTypes \cup {3}

EntityIds == 1..MaxEntities
Values == 1..MaxValues
Uninit == 0           \* the content of a cell that was allocated and not written

VARIABLES
    entities,              \* World.entities: live Entity -> Location
    index,                 \* World.index: sorted type-id vector -> archetype id
    removed_components,    \* World.removed_components: TypeId -> Vec<Entity>
    archetypes,            \* World.archetypes
    archetype_generation,  \* World.archetype_generation
    batch,                 \* the SpawnBatchIter that borrows the world, if any
    next_entity,           \* number of entities made by Entity::new()
    next_value,            \* number of values made by the caller
    dropped,               \* value -> number of times its destructor ran
    moved_out,             \* value -> number of times it was handed to the caller
    components,            \* history: entity -> (type -> value last written)
    removals,              \* history: type -> entity -> removals since clear_trackers
    borrow_state,          \* (archetype id, type) -> borrow counter of the column, if not 0
    guards                 \* the Ref and RefMut guards that were not dropped yet

world_vars == <<entities, index, removed_components, archetypes, archetype_generation>>
vars == <<entities, index, removed_components, archetypes, archetype_generation,
          batch, next_entity, next_value, dropped, moved_out,
          components, removals, borrow_state, guards>>

----------------------------------------------------------------------------
\* Sequences and 0-based vectors

Range(s) == {s[i] : i \in DOMAIN s}

Len0(v) == Cardinality(DOMAIN v)

EmptyVec == [i \in {} |-> 0]

Push(v, x) == [i \in 0..Len0(v) |-> IF i = Len0(v) THEN x ELSE v[i]]

\* Vec::swap_remove as the archetype uses it: the last element takes the place of i.
SwapRemove(v, i) ==
    [j \in 0..(Len0(v) - 2) |-> IF j = i THEN v[Len0(v) - 1] ELSE v[j]]

RECURSIVE InsertSorted(_, _)
InsertSorted(s, x) ==
    IF s = <<>> THEN <<x>>
    ELSE IF x <= Head(s) THEN <<x>> \o s
    ELSE <<Head(s)>> \o InsertSorted(Tail(s), x)

RECURSIVE Sort(_)
Sort(s) == IF s = <<>> THEN <<>> ELSE InsertSorted(Sort(Tail(s)), Head(s))

\* The sequences of distinct types of S
TypeLists(S) ==
    {s \in UNION {[1..n -> S] : n \in 0..Cardinality(S)} :
        \A i, j \in DOMAIN s : i # j => s[i] # s[j]}

\* The type lists of the bundles moved into the world, in every order
BundleTypes == TypeLists(StoredTypes)

\* The type lists R of remove::<R>
RemoveTypes == TypeLists(Types)

\* A bundle of the given types whose values are the next ones the caller makes.
\* (the value of a type does not depend on where the type stands in the bundle)
MakeBundle(tys, first) ==
    [i \in DOMAIN tys |->
        [ty |-> tys[i],
         val |-> first + Cardinality({j \in DOMAIN tys : tys[j] <= tys[i]})]]

----------------------------------------------------------------------------
\* DynamicBundle / Bundle

\* DynamicBundle::with_ids, Bundle::with_static_ids: the sorted type ids.
with_ids(bundle) == Sort([i \in DOMAIN bundle |-> bundle[i].ty])

\* DynamicBundle::type_info: the TypeInfos in canonical order.
type_info(bundle) == with_ids(bundle)

----------------------------------------------------------------------------
\* Archetype

ArchetypeNew(types) == [types |-> types, rows |-> EmptyVec]

TypeSet(arch) == Range(arch.types)

ArchLen(arch) == Len0(arch.rows)

\* Archetype::allocate: a new last row; cells not initialised, bits zero.
allocate(arch, id) ==
    [arch EXCEPT !.rows = Push(@, [id |-> id,
                                   val |-> [t \in TypeSet(arch) |-> Uninit],
                                   added |-> [t \in TypeSet(arch) |-> FALSE],
                                   mutated |-> [t \in TypeSet(arch) |-> FALSE]])]

\* Archetype::put_dynamic: moves the value into the cell and marks it.
put_dynamic(arch, val, ty, row, added) ==
    [arch EXCEPT !.rows[row].val[ty] = val,
                 !.rows[row].added[ty] = IF added THEN TRUE ELSE @,
                 !.rows[row].mutated[ty] = TRUE]

\* Archetype::get_dynamic: whether the archetype has a cell for ty.
has_dynamic(arch, ty) == ty \in TypeSet(arch)

\* The id of the entity that Archetype::remove / move_to moves into `row`.
moved_entity(arch, row) ==
    IF row # ArchLen(arch) - 1 THEN arch.rows[ArchLen(arch) - 1].id ELSE 0

\* Archetype::move_to after its emit calls: the row goes, nothing is dropped.
move_to(arch, row) == [arch EXCEPT !.rows = SwapRemove(@, row)]

\* Archetype::remove: the row's components are dropped and the row goes.
archetype_remove(arch, row) == [arch EXCEPT !.rows = SwapRemove(@, row)]

\* Archetype::clear: len becomes 0.
archetype_clear(arch) == [arch EXCEPT !.rows = EmptyVec]

\* Archetype::clear_trackers: all added and mutated bits become false.
archetype_clear_trackers(arch) ==
    [arch EXCEPT !.rows = [r \in DOMAIN @ |->
        [@[r] EXCEPT !.added = [t \in TypeSet(arch) |-> FALSE],
                     !.mutated = [t \in TypeSet(arch) |-> FALSE]]]]

\* How many cells of the row hold the value v.
CellsHolding(arch, row, tys, v) ==
    Cardinality({t \in tys : arch.rows[row].val[t] = v})

\* The borrow counter of a column: the number of shared borrows, or -1 for
\* the exclusive one; a column that is not in the state is not borrowed.
Counter(state, column) == IF column \in DOMAIN state THEN state[column] ELSE 0

SetCounter(state, column, n) ==
    IF n = 0 THEN [c \in DOMAIN state \ {column} |-> state[c]]
    ELSE [c \in DOMAIN state \cup {column} |-> IF c = column THEN n ELSE state[c]]

\* Archetype::borrow::<T>: one more shared borrow, or a panic
borrow(state, column) ==
    IF Counter(state, column) < 0 THEN [out |-> "panic", state |-> state]
    ELSE [out |-> "Ok", state |-> SetCounter(state, column, Counter(state, column) + 1)]

\* Archetype::borrow_mut::<T>: the exclusive borrow, or a panic
borrow_mut(state, column) ==
    IF Counter(state, column) # 0 THEN [out |-> "panic", state |-> state]
    ELSE [out |-> "Ok", state |-> SetCounter(state, column, 0 - 1)]

\* Archetype::release::<T>, called when a Ref is dropped
release(state, column) == SetCounter(state, column, Counter(state, column) - 1)

\* Archetype::release_mut::<T>, called when a RefMut is dropped
release_mut(state, column) == SetCounter(state, column, Counter(state, column) + 1)

----------------------------------------------------------------------------
\* Entities (the directory)

NoLocation == [archetype |-> 0 - 1, index |-> 0 - 1]

\* Entities::contains
contains(ents, entity) == entity \in DOMAIN ents

\* Entities::insert
entities_insert(ents, entity, loc) ==
    [e \in DOMAIN ents \cup {entity} |-> IF e = entity THEN loc ELSE ents[e]]

\* Entities::free: the entry goes (the caller has checked that it exists).
entities_free(ents, entity) == [e \in DOMAIN ents \ {entity} |-> ents[e]]

\* Entities::clear
entities_clear(ents) == [e \in {} |-> NoLocation]

----------------------------------------------------------------------------
\* World: the operations as functions of the world w, a record of the fields
\* of World, of `dropped` (the destructor calls so far) and of what the
\* operation returns: `out` (Ok, an error or a panic) and `bundle`.

TheWorld ==
    [entities |-> entities, index |-> index,
     removed_components |-> removed_components, archetypes |-> archetypes,
     archetype_generation |-> archetype_generation,
     dropped |-> dropped, out |-> "Ok", bundle |-> <<>>]

\* World::new
NewWorld ==
    [entities |-> entities_clear(<<>>),
     index |-> (<<>> :> 0),
     removed_components |-> [t \in Types |-> <<>>],
     archetypes |-> Push(EmptyVec, ArchetypeNew(<<>>)),
     archetype_generation |-> 0]

\* A push of a new archetype that leaves the generation as it was
push_archetype_uncounted(w, ids, info) ==
    [w EXCEPT !.archetypes = Push(@, ArchetypeNew(info)),
              !.index = (ids :> Len0(w.archetypes)) @@ @]

\* A new archetype is pushed, entered in the index and counted.
push_archetype(w, ids, info) ==
    [w EXCEPT !.archetypes = Push(@, ArchetypeNew(info)),
              !.index = (ids :> Len0(w.archetypes)) @@ @,
              !.archetype_generation = @ + 1]

\* A lookup that makes a new archetype whether or not the index has one
get_or_create_always(w, ids, info) == push_archetype(w, ids, info)

\* A lookup that counts a generation also when the index has the archetype
get_or_create_counts_lookups(w, ids, info) ==
    IF ids \in DOMAIN w.index THEN [w EXCEPT !.archetype_generation = @ + 1]
    ELSE push_archetype(w, ids, info)

\* index.get(ids) or else a new archetype
get_or_create(w, ids, info) ==
    IF ids \in DOMAIN w.index THEN w ELSE push_archetype(w, ids, info)

\* A put that writes the bundle to row 0 whatever the row it is given
RECURSIVE put_first_row(_, _, _, _)
put_first_row(arch, bundle, row, added) ==
    IF bundle = <<>> THEN arch
    ELSE put_first_row(put_dynamic(arch, Head(bundle).val, Head(bundle).ty, 0, added),
                       Tail(bundle), row, added)

\* components.put(|ptr, ty, size| archetype.put_dynamic(ptr, ty, size, index, added))
RECURSIVE put(_, _, _, _)
put(arch, bundle, row, added) ==
    IF bundle = <<>> THEN arch
    ELSE put(put_dynamic(arch, Head(bundle).val, Head(bundle).ty, row, added),
             Tail(bundle), row, added)

\* A fix_moved that leaves the directory row of the moved entity as it was
fix_moved_skipped(w, moved, row) == w

\* entities.get_mut(Entity::from_id(moved)).unwrap().index = index
fix_moved(w, moved, row) ==
    IF moved = 0 THEN w
    ELSE IF contains(w.entities, moved)
         THEN [w EXCEPT !.entities[moved].index = row]
         ELSE [w EXCEPT !.out = "panic"]

\* A log of removals that is never written
log_removed_none(rc, ty, ents) == rc

\* removed_components.entry(ty).or_insert_with(Vec::new) followed by pushes
\* (a type without an entry is a type whose vector is empty)
log_removed(rc, ty, ents) == [rc EXCEPT ![ty] = @ \o ents]

RECURSIVE log_removed_all(_, _, _)
log_removed_all(rc, tys, ents) ==
    IF tys = <<>> THEN rc
    ELSE log_removed_all(log_removed(rc, Head(tys), ents), Tail(tys), ents)

\* The destructor calls so far, after one more for each listed cell of the row.
drop_cells(d, arch, row, tys) ==
    [v \in DOMAIN d |-> d[v] + CellsHolding(arch, row, tys, v)]

\* An insert that drops nothing of what it overwrites
drop_overlap_none(d, arch, row, tys) == d

\* The loop of insert over components.type_info(): ty.drop(ptr) for every
\* type of the bundle the archetype has a cell for.
drop_overlap(d, arch, row, tys) ==
    drop_cells(d, arch, row, {t \in Range(tys) : has_dynamic(arch, t)})

\* World::spawn_as_entity
spawn_as_entity(w, entity, bundle) ==
    LET ids == with_ids(bundle)
        w1 == get_or_create(w, ids, type_info(bundle))
        archetype_id == w1.index[ids]
        archetype == w1.archetypes[archetype_id]
        row == ArchLen(archetype)
        filled == put(allocate(archetype, entity), bundle, row, TRUE)
    IN  [w1 EXCEPT !.archetypes[archetype_id] = filled,
                   !.entities = entities_insert(@, entity,
                                    [archetype |-> archetype_id, index |-> row])]

\* World::reserve_inner (capacity is not part of the model)
reserve_inner(w, tys) == get_or_create(w, Sort(tys), Sort(tys))

\* A despawn that leaves the entry of the entity in the directory
despawn_keeps_entry(w, entity) ==
    IF ~contains(w.entities, entity) THEN [w EXCEPT !.out = "NoSuchEntity"] ELSE
    LET loc == w.entities[entity]
        archetype == w.archetypes[loc.archetype]
        w1 == [w EXCEPT !.dropped = drop_cells(@, archetype, loc.index, TypeSet(archetype)),
                        !.archetypes[loc.archetype] = archetype_remove(archetype, loc.index)]
        w2 == fix_moved(w1, moved_entity(archetype, loc.index), loc.index)
    IN  IF w2.out = "panic" THEN w2
        ELSE [w2 EXCEPT !.removed_components =
                            log_removed_all(@, archetype.types, <<entity>>)]

\* World::despawn
despawn(w, entity) ==
    IF ~contains(w.entities, entity) THEN [w EXCEPT !.out = "NoSuchEntity"] ELSE
    LET loc == w.entities[entity]
        archetype == w.archetypes[loc.archetype]
        w1 == [w EXCEPT !.entities = entities_free(@, entity),
                        !.dropped = drop_cells(@, archetype, loc.index, TypeSet(archetype)),
                        !.archetypes[loc.archetype] = archetype_remove(archetype, loc.index)]
        w2 == fix_moved(w1, moved_entity(archetype, loc.index), loc.index)
    IN  IF w2.out = "panic" THEN w2
        ELSE [w2 EXCEPT !.removed_components =
                            log_removed_all(@, archetype.types, <<entity>>)]

\* The entity ids of an archetype in row order: Archetype::iter_entities
iter_entities(arch) == [i \in 1..ArchLen(arch) |-> arch.rows[i - 1].id]

\* World::clear: the archetypes a, a+1, ... are logged and cleared in turn.
RECURSIVE clear_from(_, _)
clear_from(w, a) ==
    IF a >= Len0(w.archetypes) THEN [w EXCEPT !.entities = entities_clear(@)]
    ELSE LET archetype == w.archetypes[a]
             drops == [v \in DOMAIN w.dropped |->
                          w.dropped[v] + Cardinality(
                              {<<r, t>> \in (DOMAIN archetype.rows) \X TypeSet(archetype) :
                                  archetype.rows[r].val[t] = v})]
         IN  clear_from([w EXCEPT !.removed_components =
                                     log_removed_all(@, archetype.types,
                                                     iter_entities(archetype)),
                                  !.dropped = drops,
                                  !.archetypes[a] = archetype_clear(archetype)],
                        a + 1)

\* A clear that starts over from the archetypes of a new world
clear_rebuilt(w) ==
    [clear_from(w, 0) EXCEPT !.archetypes = NewWorld.archetypes,
                             !.index = NewWorld.index]

\* World::clear
clear(w) == clear_from(w, 0)

\* A clear_trackers that leaves the log of removals as it is
clear_trackers_bits_only(w) ==
    [w EXCEPT !.archetypes = [a \in DOMAIN @ |-> archetype_clear_trackers(@[a])]]

\* World::clear_trackers
clear_trackers(w) ==
    [w EXCEPT !.archetypes = [a \in DOMAIN @ |-> archetype_clear_trackers(@[a])],
              !.removed_components = [t \in Types |-> <<>>]]

\* index2: its three assertions
index2(x, i, j) == i # j /\ i < Len0(x) /\ j < Len0(x)

\* An emit closure of insert that sets the bits and does not copy the value
insert_emit_bits_only(target_arch, tys, src_row, target_index) ==
    [target_arch EXCEPT
        !.rows[target_index].added =
            [t \in DOMAIN @ |-> IF t \in DOMAIN src_row.added THEN src_row.added[t] ELSE @[t]],
        !.rows[target_index].mutated =
            [t \in DOMAIN @ |-> IF t \in DOMAIN src_row.mutated THEN src_row.mutated[t] ELSE @[t]]]

\* An emit closure of insert that moves the value and leaves the bits as
\* put_dynamic sets them
RECURSIVE insert_emit_fresh_bits(_, _, _, _)
insert_emit_fresh_bits(target_arch, tys, src_row, target_index) ==
    IF tys = <<>> THEN target_arch
    ELSE insert_emit_fresh_bits(
             put_dynamic(target_arch, src_row.val[Head(tys)], Head(tys),
                         target_index, FALSE),
             Tail(tys), src_row, target_index)

\* The emit closure of insert, called by move_to for every component of the
\* source row: the value and its added/mutated bits go to the target row.
RECURSIVE insert_emit(_, _, _, _)
insert_emit(target_arch, tys, src_row, target_index) ==
    IF tys = <<>> THEN target_arch
    ELSE LET ty == Head(tys)
             t1 == put_dynamic(target_arch, src_row.val[ty], ty, target_index, FALSE)
             t2 == [t1 EXCEPT !.rows[target_index].added[ty] = src_row.added[ty],
                              !.rows[target_index].mutated[ty] = src_row.mutated[ty]]
         IN  insert_emit(t2, Tail(tys), src_row, target_index)

\* A migration that marks as added only the types the source row lacked
insert_migrate_adds_new_only(w, entity, bundle, target) ==
    LET loc == w.entities[entity]
        source_arch == w.archetypes[loc.archetype]
        target_arch == w.archetypes[target]
        target_index == ArchLen(target_arch)
        old_index == loc.index
        received == insert_emit(allocate(target_arch, entity), source_arch.types,
                                source_arch.rows[old_index], target_index)
        w1 == [w EXCEPT !.entities[entity] = [archetype |-> target, index |-> target_index],
                        !.archetypes[loc.archetype] = move_to(source_arch, old_index),
                        !.archetypes[target] = received]
        w2 == fix_moved(w1, moved_entity(source_arch, old_index), old_index)
        had == SelectSeq(bundle, LAMBDA c : has_dynamic(source_arch, c.ty))
        new == SelectSeq(bundle, LAMBDA c : ~has_dynamic(source_arch, c.ty))
    IN  IF ~index2(w.archetypes, loc.archetype, target) THEN [w EXCEPT !.out = "panic"]
        ELSE IF w2.out = "panic" THEN w2
        ELSE [w2 EXCEPT !.archetypes[target] =
                 put(put(@, had, target_index, FALSE), new, target_index, TRUE)]

\* World::insert from `Move into a new archetype` on
insert_migrate(w, entity, bundle, target) ==
    LET loc == w.entities[entity]
        source_arch == w.archetypes[loc.archetype]
        target_arch == w.archetypes[target]
        target_index == ArchLen(target_arch)
        old_index == loc.index
        received == insert_emit(allocate(target_arch, entity), source_arch.types,
                                source_arch.rows[old_index], target_index)
        w1 == [w EXCEPT !.entities[entity] = [archetype |-> target, index |-> target_index],
                        !.archetypes[loc.archetype] = move_to(source_arch, old_index),
                        !.archetypes[target] = received]
        w2 == fix_moved(w1, moved_entity(source_arch, old_index), old_index)
    IN  IF ~index2(w.archetypes, loc.archetype, target) THEN [w EXCEPT !.out = "panic"]
        ELSE IF w2.out = "panic" THEN w2
        ELSE [w2 EXCEPT !.archetypes[target] = put(@, bundle, target_index, TRUE)]

\* An insert that leaves out info.sort()
insert_unsorted(w, entity, bundle) ==
    IF ~contains(w.entities, entity) THEN [w EXCEPT !.out = "NoSuchEntity"] ELSE
    LET loc == w.entities[entity]
        arch == w.archetypes[loc.archetype]
        tys == type_info(bundle)
        info == arch.types \o SelectSeq(tys, LAMBDA t : ~has_dynamic(arch, t))
        w0 == [w EXCEPT !.dropped = drop_overlap(@, arch, loc.index, tys)]
        w1 == get_or_create(w0, info, info)
        target == w1.index[info]
    IN  IF target = loc.archetype
        THEN [w1 EXCEPT !.archetypes[loc.archetype] = put(@, bundle, loc.index, FALSE)]
        ELSE insert_migrate(w1, entity, bundle, target)

\* An insert that marks what it overwrites in place as added
insert_marks_added(w, entity, bundle) ==
    IF ~contains(w.entities, entity) THEN [w EXCEPT !.out = "NoSuchEntity"] ELSE
    LET loc == w.entities[entity]
        arch == w.archetypes[loc.archetype]
        tys == type_info(bundle)
        info == Sort(arch.types \o SelectSeq(tys, LAMBDA t : ~has_dynamic(arch, t)))
        w0 == [w EXCEPT !.dropped = drop_overlap(@, arch, loc.index, tys)]
        w1 == get_or_create(w0, info, info)
        target == w1.index[info]
    IN  IF target = loc.archetype
        THEN [w1 EXCEPT !.archetypes[loc.archetype] = put(@, bundle, loc.index, TRUE)]
        ELSE insert_migrate(w1, entity, bundle, target)

\* World::insert
insert(w, entity, bundle) ==
    IF ~contains(w.entities, entity) THEN [w EXCEPT !.out = "NoSuchEntity"] ELSE
    LET loc == w.entities[entity]
        arch == w.archetypes[loc.archetype]
        tys == type_info(bundle)
        info == Sort(arch.types \o SelectSeq(tys, LAMBDA t : ~has_dynamic(arch, t)))
        w0 == [w EXCEPT !.dropped = drop_overlap(@, arch, loc.index, tys)]
        w1 == get_or_create(w0, info, info)
        target == w1.index[info]
    IN  IF target = loc.archetype
        THEN [w1 EXCEPT !.archetypes[loc.archetype] = put(@, bundle, loc.index, FALSE)]
        ELSE insert_migrate(w1, entity, bundle, target)

\* An emit closure of remove that logs the lost types and copies nothing
remove_emit_log_only(st, tys, src_row, target_index, entity) ==
    [st EXCEPT !.removed_components =
        log_removed_all(@, SelectSeq(tys, LAMBDA t : ~has_dynamic(st.target_arch, t)),
                        <<entity>>)]

\* The emit closure of remove: a component the target has is copied with its
\* bits, for any other the entity is logged as having lost it.
RECURSIVE remove_emit(_, _, _, _, _)
remove_emit(st, tys, src_row, target_index, entity) ==
    IF tys = <<>> THEN st
    ELSE LET ty == Head(tys)
             st1 == IF has_dynamic(st.target_arch, ty)
                    THEN [st EXCEPT
                            !.target_arch.rows[target_index].val[ty] = src_row.val[ty],
                            !.target_arch.rows[target_index].added[ty] = src_row.added[ty],
                            !.target_arch.rows[target_index].mutated[ty] = src_row.mutated[ty]]
                    ELSE [st EXCEPT
                            !.removed_components = log_removed(@, ty, <<entity>>)]
         IN  remove_emit(st1, Tail(tys), src_row, target_index, entity)

\* A remove_migrate that moves the row and leaves the directory entry of the
\* entity pointing at the source archetype
remove_migrate_stale(w, entity, target) ==
    LET loc == w.entities[entity]
        source_arch == w.archetypes[loc.archetype]
        target_arch == w.archetypes[target]
        target_index == ArchLen(target_arch)
        old_index == loc.index
        st == remove_emit([target_arch |-> allocate(target_arch, entity),
                           removed_components |-> w.removed_components],
                          source_arch.types, source_arch.rows[old_index],
                          target_index, entity)
        w1 == [w EXCEPT !.entities[entity] = [archetype |-> loc.archetype, index |-> target_index],
                        !.archetypes[loc.archetype] = move_to(source_arch, old_index),
                        !.archetypes[target] = st.target_arch,
                        !.removed_components = st.removed_components]
    IN  fix_moved(w1, moved_entity(source_arch, old_index), old_index)

\* World::remove from index2 on
remove_migrate(w, entity, target) ==
    LET loc == w.entities[entity]
        source_arch == w.archetypes[loc.archetype]
        target_arch == w.archetypes[target]
        target_index == ArchLen(target_arch)
        old_index == loc.index
        st == remove_emit([target_arch |-> allocate(target_arch, entity),
                           removed_components |-> w.removed_components],
                          source_arch.types, source_arch.rows[old_index],
                          target_index, entity)
        w1 == [w EXCEPT !.entities[entity] = [archetype |-> target, index |-> target_index],
                        !.archetypes[loc.archetype] = move_to(source_arch, old_index),
                        !.archetypes[target] = st.target_arch,
                        !.removed_components = st.removed_components]
    IN  fix_moved(w1, moved_entity(source_arch, old_index), old_index)

\* Bundle::get: the values of the types of R in the row, if it has them all
bundle_get(arch, row, R) ==
    IF \A t \in Range(R) : has_dynamic(arch, t)
    THEN [ok |-> TRUE, bundle |-> [t \in Range(R) |-> arch.rows[row].val[t]]]
    ELSE [ok |-> FALSE, bundle |-> <<>>]

\* A remove that asks Bundle::get before it looks the target archetype up
remove_checks_first(w, entity, R) ==
    IF ~contains(w.entities, entity) THEN [w EXCEPT !.out = "NoSuchEntity"] ELSE
    LET loc == w.entities[entity]
        source_arch == w.archetypes[loc.archetype]
        removed == Range(R)
        info == SelectSeq(source_arch.types, LAMBDA t : t \notin removed)
        w1 == get_or_create(w, info, info)
        target == w1.index[info]
        got == bundle_get(source_arch, loc.index, R)
        w2 == remove_migrate(w1, entity, target)
    IN  IF ~got.ok THEN [w EXCEPT !.out = "MissingComponent"]
        ELSE IF ~index2(w1.archetypes, loc.archetype, target)
        THEN [w1 EXCEPT !.out = "panic"]
        ELSE IF w2.out = "panic" THEN w2
        ELSE [w2 EXCEPT !.bundle = got.bundle]

\* A remove that finds out that a component is missing after it moved the row
remove_late_check(w, entity, R) ==
    IF ~contains(w.entities, entity) THEN [w EXCEPT !.out = "NoSuchEntity"] ELSE
    LET loc == w.entities[entity]
        source_arch == w.archetypes[loc.archetype]
        removed == Range(R)
        info == SelectSeq(source_arch.types, LAMBDA t : t \notin removed)
        w1 == get_or_create(w, info, info)
        target == w1.index[info]
        got == bundle_get(source_arch, loc.index, R)
        w2 == remove_migrate(w1, entity, target)
    IN  IF ~index2(w1.archetypes, loc.archetype, target)
        THEN [w1 EXCEPT !.out = IF got.ok THEN "panic" ELSE "MissingComponent"]
        ELSE IF w2.out = "panic" THEN w2
        ELSE IF ~got.ok THEN [w2 EXCEPT !.out = "MissingComponent"]
        ELSE [w2 EXCEPT !.bundle = got.bundle]

\* World::remove
remove(w, entity, R) ==
    IF ~contains(w.entities, entity) THEN [w EXCEPT !.out = "NoSuchEntity"] ELSE
    LET loc == w.entities[entity]
        source_arch == w.archetypes[loc.archetype]
        removed == Range(R)
        info == SelectSeq(source_arch.types, LAMBDA t : t \notin removed)
        w1 == get_or_create(w, info, info)
        target == w1.index[info]
        got == bundle_get(source_arch, loc.index, R)
        w2 == remove_migrate(w1, entity, target)
    IN  IF ~got.ok THEN [w1 EXCEPT !.out = "MissingComponent"]
        ELSE IF ~index2(w1.archetypes, loc.archetype, target)
        THEN [w1 EXCEPT !.out = "panic"]
        ELSE IF w2.out = "panic" THEN w2
        ELSE [w2 EXCEPT !.bundle = got.bundle]

\* A next() that enters every entity in the directory at row 0
batch_next_row_zero(w, archetype_id, entity, bundle) ==
    LET archetype == w.archetypes[archetype_id]
        row == ArchLen(archetype)
    IN  [w EXCEPT !.archetypes[archetype_id] =
                        put(allocate(archetype, entity), bundle, row, TRUE),
                  !.entities = entities_insert(@, entity,
                                    [archetype |-> archetype_id, index |-> 0])]

\* SpawnBatchIter::next for the next bundle of the inner iterator
batch_next(w, archetype_id, entity, bundle) ==
    LET archetype == w.archetypes[archetype_id]
        row == ArchLen(archetype)
    IN  [w EXCEPT !.archetypes[archetype_id] =
                        put(allocate(archetype, entity), bundle, row, TRUE),
                  !.entities = entities_insert(@, entity,
                                    [archetype |-> archetype_id, index |-> row])]

\* World::entity
world_entity(w, e) == IF ~contains(w.entities, e) THEN "NoSuchEntity" ELSE "Ok"

\* World::query_one
query_one(w, e) == IF ~contains(w.entities, e) THEN "NoSuchEntity" ELSE "Ok"

\* A get that takes an entity that is not live for one without the component
get_absent_as_missing(w, entity, ty) ==
    IF ~contains(w.entities, entity) THEN [out |-> "MissingComponent", val |-> Uninit]
    ELSE LET loc == w.entities[entity]
         IN  IF ~has_dynamic(w.archetypes[loc.archetype], ty)
             THEN [out |-> "MissingComponent", val |-> Uninit]
             ELSE [out |-> "Ok",
                   val |-> w.archetypes[loc.archetype].rows[loc.index].val[ty]]

\* World::get / World::get_mut: the outcome and the value borrowed
get(w, entity, ty) ==
    IF ~contains(w.entities, entity) THEN [out |-> "NoSuchEntity", val |-> Uninit]
    ELSE LET loc == w.entities[entity]
         IN  IF loc.archetype = 0
             THEN [out |-> "MissingComponent", val |-> Uninit]
             ELSE IF ~has_dynamic(w.archetypes[loc.archetype], ty)
             THEN [out |-> "MissingComponent", val |-> Uninit]
             ELSE [out |-> "Ok",
                   val |-> w.archetypes[loc.archetype].rows[loc.index].val[ty]]

\* World::get: the Ref, with the borrow counters after the call
get_ref(w, state, entity, ty) ==
    LET found == get(w, entity, ty)
        taken == borrow(state, <<w.entities[entity].archetype, ty>>)
    IN  IF found.out # "Ok" THEN [out |-> found.out, val |-> Uninit, state |-> state]
        ELSE IF taken.out # "Ok" THEN [out |-> taken.out, val |-> Uninit, state |-> state]
        ELSE [out |-> "Ok", val |-> found.val, state |-> taken.state]

\* A get_mut that makes its guard with Ref::new
get_mut_shared(w, state, entity, ty) == get_ref(w, state, entity, ty)

\* World::get_mut: the RefMut, with the borrow counters after the call
get_mut(w, state, entity, ty) ==
    LET found == get(w, entity, ty)
        taken == borrow_mut(state, <<w.entities[entity].archetype, ty>>)
    IN  IF found.out # "Ok" THEN [out |-> found.out, val |-> Uninit, state |-> state]
        ELSE IF taken.out # "Ok" THEN [out |-> taken.out, val |-> Uninit, state |-> state]
        ELSE [out |-> "Ok", val |-> found.val, state |-> taken.state]

\* Iter::new: no archetype is taken from the slice yet, `current` is None (-1)
iter_new == [archetypes |-> 0, current |-> 0 - 1, index |-> 0]

\* An Iter::next that leaves an archetype one row early
RECURSIVE iter_next_early(_, _)
iter_next_early(w, it) ==
    IF it.current = 0 - 1
    THEN IF it.archetypes >= Len0(w.archetypes) THEN [item |-> 0, it |-> it]
         ELSE iter_next_early(w, [it EXCEPT !.current = it.archetypes,
                                            !.archetypes = @ + 1,
                                            !.index = 0])
    ELSE IF it.index + 1 >= ArchLen(w.archetypes[it.current])
         THEN iter_next_early(w, [it EXCEPT !.current = 0 - 1])
         ELSE [item |-> w.archetypes[it.current].rows[it.index].id,
               it |-> [it EXCEPT !.index = @ + 1]]

\* Iter::next: the entity yielded (0 for None) and the iterator afterwards
RECURSIVE iter_next(_, _)
iter_next(w, it) ==
    IF it.current = 0 - 1
    THEN IF it.archetypes >= Len0(w.archetypes) THEN [item |-> 0, it |-> it]
         ELSE iter_next(w, [it EXCEPT !.current = it.archetypes,
                                      !.archetypes = @ + 1,
                                      !.index = 0])
    ELSE IF it.index = ArchLen(w.archetypes[it.current])
         THEN iter_next(w, [it EXCEPT !.current = 0 - 1])
         ELSE [item |-> w.archetypes[it.current].rows[it.index].id,
               it |-> [it EXCEPT !.index = @ + 1]]

\* world.iter().map(|(id, _)| id).collect(): next() until it gives None
RECURSIVE iter_collect(_, _)
iter_collect(w, it) ==
    LET r == iter_next(w, it)
    IN  IF r.item = 0 THEN <<>> ELSE <<r.item>> \o iter_collect(w, r.it)

\* World::removed
removed(w, ty) == w.removed_components[ty]

----------------------------------------------------------------------------
\* The state machine

\* `remaining` is what the inner iterator has left, `yielded` what next() gave
NoBatch ==
    [active |-> FALSE, archetype_id |-> 0, tys |-> <<>>, remaining |-> 0, yielded |-> 0]

\* The bundle as a map from its types to its values
BundleMap(bundle) ==
    [t \in {bundle[i].ty : i \in DOMAIN bundle} |->
        bundle[CHOOSE i \in DOMAIN bundle : bundle[i].ty = t].val]

Init ==
    /\ entities = NewWorld.entities
    /\ index = NewWorld.index
    /\ removed_components = NewWorld.removed_components
    /\ archetypes = NewWorld.archetypes
    /\ archetype_generation = NewWorld.archetype_generation
    /\ batch = NoBatch
    /\ next_entity = 0
    /\ next_value = 0
    /\ dropped = [v \in Values |-> 0]
    /\ moved_out = [v \in Values |-> 0]
    /\ components = <<>>
    /\ removals = [t \in Types |-> [e \in EntityIds |-> 0]]
    /\ borrow_state = <<>>
    /\ guards = <<>>

\* The fields of World become those of w.
Becomes(w) ==
    /\ entities' = w.entities
    /\ index' = w.index
    /\ removed_components' = w.removed_components
    /\ archetypes' = w.archetypes
    /\ archetype_generation' = w.archetype_generation
    /\ dropped' = w.dropped

\* f without the keys in ks
Without(f, ks) == [k \in DOMAIN f \ ks |-> f[k]]

\* The removal history after entity e lost the types tys
Lost(h, e, tys) ==
    [t \in Types |-> [x \in EntityIds |->
        h[t][x] + (IF x = e /\ t \in tys THEN 1 ELSE 0)]]

\* world.spawn(bundle): Entity::new() makes an entity never seen before.
Spawn(tys) ==
    /\ ~batch.active
    /\ guards = <<>>
    /\ UNCHANGED <<borrow_state, guards>>
    /\ next_entity < MaxEntities
    /\ next_value + Len(tys) <= MaxValues
    /\ LET entity == next_entity + 1
           bundle == MakeBundle(tys, next_value)
       IN  /\ Becomes(spawn_as_entity(TheWorld, entity, bundle))
           /\ next_entity' = entity
           /\ next_value' = next_value + Len(tys)
           /\ components' = (entity :> BundleMap(bundle)) @@ components
    /\ UNCHANGED <<batch, moved_out, removals>>

\* world.despawn(entity)
Despawn(entity) ==
    /\ ~batch.active
    /\ guards = <<>>
    /\ UNCHANGED <<borrow_state, guards>>
    /\ LET w == despawn(TheWorld, entity)
       IN  /\ Becomes(w)
           /\ IF w.out = "Ok"
              THEN /\ removals' = Lost(removals, entity, DOMAIN components[entity])
                   /\ components' = Without(components, {entity})
              ELSE UNCHANGED <<components, removals>>
    /\ UNCHANGED <<batch, next_entity, next_value, moved_out>>

\* world.insert(entity, bundle)
Insert(entity, tys) ==
    /\ ~batch.active
    /\ guards = <<>>
    /\ UNCHANGED <<borrow_state, guards>>
    /\ next_value + Len(tys) <= MaxValues
    /\ LET bundle == MakeBundle(tys, next_value)
           w == insert(TheWorld, entity, bundle)
       IN  /\ Becomes(w)
           /\ IF w.out = "Ok"
              THEN /\ next_value' = next_value + Len(tys)
                   /\ components' = [components EXCEPT ![entity] = BundleMap(bundle) @@ @]
              ELSE UNCHANGED <<next_value, components>>
    /\ UNCHANGED <<batch, next_entity, moved_out, removals>>

\* world.remove::<R>(entity)
Remove(entity, R) ==
    /\ ~batch.active
    /\ guards = <<>>
    /\ UNCHANGED <<borrow_state, guards>>
    /\ LET w == remove(TheWorld, entity, R)
       IN  /\ Becomes(w)
           /\ moved_out' = [v \in Values |->
                 moved_out[v] + Cardinality({t \in DOMAIN w.bundle : w.bundle[t] = v})]
           /\ IF w.out = "Ok"
              THEN /\ components' = [components EXCEPT ![entity] = Without(@, Range(R))]
                   /\ removals' = Lost(removals, entity, Range(R))
              ELSE UNCHANGED <<components, removals>>
    /\ UNCHANGED <<batch, next_entity, next_value>>

\* world.clear()
Clear ==
    /\ ~batch.active
    /\ guards = <<>>
    /\ UNCHANGED <<borrow_state, guards>>
    /\ Becomes(clear(TheWorld))
    /\ removals' = [t \in Types |-> [e \in EntityIds |->
          removals[t][e] + (IF e \in DOMAIN components /\ t \in DOMAIN components[e]
                            THEN 1 ELSE 0)]]
    /\ components' = <<>>
    /\ UNCHANGED <<batch, next_entity, next_value, moved_out>>

\* world.clear_trackers()
ClearTrackers ==
    /\ ~batch.active
    /\ guards = <<>>
    /\ UNCHANGED <<borrow_state, guards>>
    /\ Becomes(clear_trackers(TheWorld))
    /\ removals' = [t \in Types |-> [e \in EntityIds |-> 0]]
    /\ UNCHANGED <<batch, next_entity, next_value, moved_out, components>>

\* world.reserve::<T>(additional)
Reserve(tys) ==
    /\ ~batch.active
    /\ guards = <<>>
    /\ UNCHANGED <<borrow_state, guards>>
    /\ Becomes(reserve_inner(TheWorld, tys))
    /\ UNCHANGED <<batch, next_entity, next_value, moved_out, components, removals>>

\* world.spawn_batch(iter) for an iterator of n bundles of the types tys: the
\* iterator returned borrows the world until it is dropped.
SpawnBatch(tys, n) ==
    /\ ~batch.active
    /\ guards = <<>>
    /\ UNCHANGED <<borrow_state, guards>>
    /\ next_entity + n <= MaxEntities
    /\ next_value + n * Len(tys) <= MaxValues
    /\ LET w == reserve_inner(TheWorld, tys)
       IN  /\ Becomes(w)
           /\ batch' = [active |-> TRUE, archetype_id |-> w.index[Sort(tys)],
                        tys |-> tys, remaining |-> n, yielded |-> 0]
    /\ UNCHANGED <<next_entity, next_value, moved_out, components, removals>>

\* The consumer pulls the next entity from the SpawnBatchIter.
BatchNext ==
    /\ batch.active
    /\ UNCHANGED <<borrow_state, guards>>
    /\ batch.remaining > 0
    /\ LET entity == next_entity + 1
           bundle == MakeBundle(batch.tys, next_value)
       IN  /\ Becomes(batch_next(TheWorld, batch.archetype_id, entity, bundle))
           /\ next_entity' = entity
           /\ next_value' = next_value + Len(batch.tys)
           /\ components' = (entity :> BundleMap(bundle)) @@ components
    /\ batch' = [batch EXCEPT !.remaining = @ - 1, !.yielded = @ + 1]
    /\ UNCHANGED <<moved_out, removals>>

\* A drop that leaves the rest of the inner iterator where it is
drain_abandons(st) == st

\* The state of the run of `for _ in self {}` in SpawnBatchIter::drop
RECURSIVE drain(_)
drain(st) ==
    IF st.remaining = 0 THEN st
    ELSE LET entity == st.next_entity + 1
             bundle == MakeBundle(st.tys, st.next_value)
         IN  drain([st EXCEPT
                 !.w = batch_next(@, st.archetype_id, entity, bundle),
                 !.next_entity = entity,
                 !.next_value = @ + Len(st.tys),
                 !.components = (entity :> BundleMap(bundle)) @@ @,
                 !.remaining = @ - 1])

\* `for x in iter { self.spawn(x); }`: spawn for each of the bundles in turn
RECURSIVE spawn_each(_)
spawn_each(st) ==
    IF st.remaining = 0 THEN st
    ELSE LET entity == st.next_entity + 1
             bundle == MakeBundle(st.tys, st.next_value)
         IN  spawn_each([st EXCEPT
                 !.w = spawn_as_entity(@, entity, bundle),
                 !.next_entity = entity,
                 !.next_value = @ + Len(st.tys),
                 !.components = (entity :> BundleMap(bundle)) @@ @,
                 !.remaining = @ - 1])

\* The SpawnBatchIter is dropped.
BatchDrop ==
    /\ batch.active
    /\ UNCHANGED <<borrow_state, guards>>
    /\ LET st == drain([w |-> TheWorld, archetype_id |-> batch.archetype_id,
                        tys |-> batch.tys, remaining |-> batch.remaining,
                        next_entity |-> next_entity, next_value |-> next_value,
                        components |-> components])
       IN  /\ Becomes(st.w)
           /\ next_entity' = st.next_entity
           /\ next_value' = st.next_value
           /\ components' = st.components
    /\ batch' = NoBatch
    /\ UNCHANGED <<moved_out, removals>>

\* A guard on the column of ty in the archetype of the entity
Guard(entity, ty, exclusive) ==
    [archetype |-> entities[entity].archetype, ty |-> ty,
     entity |-> entity, exclusive |-> exclusive]

\* world.get::<ty>(entity) gives a Ref that the caller keeps.
Get(entity, ty) ==
    /\ ~batch.active
    /\ Len(guards) < MaxGuards
    /\ LET r == get_ref(TheWorld, borrow_state, entity, ty)
       IN  /\ r.out = "Ok"
           /\ borrow_state' = r.state
           /\ guards' = Append(guards, Guard(entity, ty, FALSE))
    /\ UNCHANGED <<world_vars, batch, next_entity, next_value, dropped, moved_out,
                   components, removals>>

\* world.get_mut::<ty>(entity) gives a RefMut that the caller keeps.
GetMut(entity, ty) ==
    /\ ~batch.active
    /\ Len(guards) < MaxGuards
    /\ LET r == get_mut(TheWorld, borrow_state, entity, ty)
       IN  /\ r.out = "Ok"
           /\ borrow_state' = r.state
           /\ guards' = Append(guards, Guard(entity, ty, TRUE))
    /\ UNCHANGED <<world_vars, batch, next_entity, next_value, dropped, moved_out,
                   components, removals>>

\* The caller drops the i-th of the guards it keeps.
DropGuard(i) ==
    /\ i \in DOMAIN guards
    /\ LET g == guards[i]
       IN  borrow_state' = IF g.exclusive
                           THEN release_mut(borrow_state, <<g.archetype, g.ty>>)
                           ELSE release(borrow_state, <<g.archetype, g.ty>>)
    /\ guards' = SubSeq(guards, 1, i - 1) \o SubSeq(guards, i + 1, Len(guards))
    /\ UNCHANGED <<world_vars, batch, next_entity, next_value, dropped, moved_out,
                   components, removals>>

\* The rows of all archetypes
AllRows(w) ==
    UNION {{<<a, r>> : r \in DOMAIN w.archetypes[a].rows} : a \in DOMAIN w.archetypes}

\* Every row holds a live entity whose directory entry is that row
RowsAgree(w) ==
    \A p \in AllRows(w) :
        LET id == w.archetypes[p[1]].rows[p[2]].id
        IN  /\ contains(w.entities, id)
            /\ w.entities[id] = [archetype |-> p[1], index |-> p[2]]

\* world.spawn_as_entity(entity, bundle) with a handle that Entity::new() gave
\* earlier, whether or not the entity is live.
SpawnAsEntity(entity, tys) ==
    /\ ~batch.active
    /\ guards = <<>>
    /\ UNCHANGED <<borrow_state, guards>>
    /\ entity <= next_entity
    /\ next_value + Len(tys) <= MaxValues
    /\ Cardinality(AllRows(TheWorld)) < MaxRows
    /\ LET bundle == MakeBundle(tys, next_value)
       IN  /\ Becomes(spawn_as_entity(TheWorld, entity, bundle))
           /\ next_value' = next_value + Len(tys)
           /\ components' = (entity :> BundleMap(bundle)) @@ Without(components, {entity})
    /\ UNCHANGED <<batch, next_entity, moved_out, removals>>

Next ==
    \/ \E tys \in BundleTypes : Spawn(tys)
    \/ \E entity \in EntityIds : Despawn(entity)
    \/ \E entity \in EntityIds, tys \in BundleTypes : Insert(entity, tys)
    \/ \E entity \in EntityIds, R \in RemoveTypes : Remove(entity, R)
    \/ Clear
    \/ ClearTrackers
    \/ \E tys \in BundleTypes, n \in 1..MaxBatch : SpawnBatch(tys, n)
    \/ BatchNext
    \/ BatchDrop

Spec == Init /\ [][Next]_vars

\* Next with the operations that make archetypes without making entities:
\* reserve, and spawn_batch over an empty iterator
NextReserving ==
    \/ Next
    \/ \E tys \in BundleTypes : Reserve(tys)
    \/ \E tys \in BundleTypes : SpawnBatch(tys, 0)

SpecReserving == Init /\ [][NextReserving]_vars

\* The operations that take the world exclusively, which the compiler admits
\* when no guard is alive, and the borrows of components
NextBorrows ==
    \/ \E tys \in BundleTypes : Spawn(tys)
    \/ \E entity \in EntityIds : Despawn(entity)
    \/ \E entity \in EntityIds, tys \in BundleTypes : Insert(entity, tys)
    \/ \E entity \in EntityIds, ty \in Types : Get(entity, ty)
    \/ \E entity \in EntityIds, ty \in Types : GetMut(entity, ty)
    \/ \E i \in 1..MaxGuards : DropGuard(i)

SpecBorrows == Init /\ [][NextBorrows]_vars

\* The operations with spawn_as_entity on handles of the caller's choice. Once
\* a row and the directory disagree, despawn, insert and remove would index
\* rows by a directory that does not describe them; they are taken while rows
\* and directory agree.
NextAsEntity ==
    \/ \E tys \in BundleTypes : Spawn(tys)
    \/ \E entity \in EntityIds, tys \in BundleTypes : SpawnAsEntity(entity, tys)
    \/ \E entity \in EntityIds : RowsAgree(TheWorld) /\ Despawn(entity)
    \/ \E entity \in EntityIds, tys \in BundleTypes :
            RowsAgree(TheWorld) /\ Insert(entity, tys)
    \/ \E entity \in EntityIds, R \in RemoveTypes :
            RowsAgree(TheWorld) /\ Remove(entity, R)

SpecAsEntity == Init /\ [][NextAsEntity]_vars

----------------------------------------------------------------------------
\* Properties

\* How often x occurs in the sequence s
Count(s, x) == Cardinality({i \in DOMAIN s : s[i] = x})

\* The archetype of a live entity
ArchetypeOf(w, e) == w.archetypes[w.entities[e].archetype]

\* The id of the archetype with the type set S, or -1
ArchetypeWith(S) ==
    IF \E a \in DOMAIN archetypes : TypeSet(archetypes[a]) = S
    THEN CHOOSE a \in DOMAIN archetypes : TypeSet(archetypes[a]) = S
    ELSE 0 - 1

\* C1: every row of every archetype holds an entity whose directory entry is
\* that archetype and that row, also after a last row was swapped into a
\* vacated row.
C1_RowsMatchDirectory ==
    \A a \in DOMAIN archetypes : \A r \in DOMAIN archetypes[a].rows :
        LET id == archetypes[a].rows[r].id
        IN  /\ contains(entities, id)
            /\ entities[id] = [archetype |-> a, index |-> r]

\* Entity 1 got type 1, then entity 2 got type 1, then entity 1 got type 2:
\* entity 2 was the last row of {1} and was swapped into row 0.
C1_Witness ==
    /\ DOMAIN components = {1, 2}
    /\ components[1] = (1 :> 1) @@ (2 :> 3)
    /\ components[2] = (1 :> 2)
    /\ entities[2] = [archetype |-> ArchetypeWith({1}), index |-> 0]

\* C2: the directory entry of every live entity names an archetype whose type
\* set is the set of types the entity has, and a row of it; the live entities
\* are those of the directory.
C2_DirectoryMatchesComponents ==
    /\ DOMAIN entities = DOMAIN components
    /\ \A e \in DOMAIN components :
        /\ entities[e].archetype \in DOMAIN archetypes
        /\ TypeSet(ArchetypeOf(TheWorld, e)) = DOMAIN components[e]
        /\ entities[e].index >= 0
        /\ entities[e].index < ArchLen(ArchetypeOf(TheWorld, e))

\* The only entity ever made holds the second value as its only component,
\* and the first value was taken back by a remove: it was migrated by an
\* insert and by a remove.
C2_Witness ==
    /\ next_entity = 1
    /\ 1 \in DOMAIN components
    /\ DOMAIN components[1] = {2}
    /\ moved_out[1] = 1
    /\ TypeSet(ArchetypeOf(TheWorld, 1)) = {2}

\* C3: get::<T>(E) yields the value last written to T of E by spawn or insert
\* if it was not removed since, whatever else happened in between.
C3_GetYieldsLastWritten ==
    \A e \in DOMAIN components : \A t \in DOMAIN components[e] :
        get(TheWorld, e, t) = [out |-> "Ok", val |-> components[e][t]]

\* Entity 2 holds the value it was given before its row was swapped, and
\* entity 1 the value it was given before it was migrated.
C3_Witness ==
    /\ DOMAIN components = {1, 2}
    /\ get(TheWorld, 2, 2).val = 2
    /\ get(TheWorld, 1, 2).val = 1
    /\ get(TheWorld, 1, 1).val = 3
    /\ entities[2].index = 0

\* C4: remove::<R>(E) on a live entity that lacks a type of R returns
\* MissingComponent and removes nothing: every component of E is read as
\* before, the directory entry of E and the removed log are as before, no
\* value is dropped or returned.
C4_FailedRemoveRemovesNothing ==
    \A e \in DOMAIN entities : \A R \in RemoveTypes :
        (\E t \in Range(R) : t \notin DOMAIN components[e]) =>
            LET w == remove(TheWorld, e, R)
            IN  /\ w.out = "MissingComponent"
                /\ w.bundle = <<>>
                /\ \A t \in Types : get(w, e, t) = get(TheWorld, e, t)
                /\ TypeSet(ArchetypeOf(w, e)) = DOMAIN components[e]
                /\ w.entities[e] = entities[e]
                /\ w.removed_components = removed_components
                /\ w.dropped = dropped

\* The only entity ever made has the two values it was given and nothing was
\* removed, and there is an archetype of the type set {2}: a remove of the
\* types 1 and 3 was refused.
C4_Witness ==
    /\ next_entity = 1
    /\ 1 \in DOMAIN entities
    /\ next_value = 2
    /\ get(TheWorld, 1, 1).val = 1
    /\ get(TheWorld, 1, 2).val = 2
    /\ ArchetypeWith({2}) > 0
    /\ \A v \in Values : moved_out[v] = 0 /\ dropped[v] = 0

\* C5: a remove::<R>(E) that succeeds returns the values E held for the types
\* of R; afterwards get is MissingComponent for the types of R, the other
\* components of E are read as before, the archetype of E has the types E had
\* minus R, and E is still live.
C5_RemoveReturnsAndKeeps ==
    \A e \in DOMAIN entities : \A R \in RemoveTypes :
        LET w == remove(TheWorld, e, R)
        IN  w.out = "Ok" =>
            /\ Range(R) \subseteq DOMAIN components[e]
            /\ w.bundle = [t \in Range(R) |-> components[e][t]]
            /\ \A t \in Range(R) : get(w, e, t).out = "MissingComponent"
            /\ \A t \in DOMAIN components[e] \ Range(R) :
                  get(w, e, t) = [out |-> "Ok", val |-> components[e][t]]
            /\ TypeSet(ArchetypeOf(w, e)) = DOMAIN components[e] \ Range(R)
            /\ contains(w.entities, e)
            /\ world_entity(w, e) = "Ok"

\* The only entity ever made gave back its two values in a remove of both
\* and lives on without components, in archetype 0.
C5_Witness ==
    /\ next_entity = 1
    /\ next_value = 2
    /\ moved_out[1] = 1
    /\ moved_out[2] = 1
    /\ contains(entities, 1)
    /\ entities[1].archetype = 0
    /\ components[1] = <<>>

\* An entity that was made and is live no more (it was despawned, or cleared)
Gone(e) == e <= next_entity /\ e \notin DOMAIN components

C6_NoSuchEntity ==
    \A e \in EntityIds : Gone(e) =>
        /\ ~contains(entities, e)
        /\ despawn(TheWorld, e) = [TheWorld EXCEPT !.out = "NoSuchEntity"]
        /\ \A tys \in BundleTypes :
              insert(TheWorld, e, MakeBundle(tys, next_value))
                  = [TheWorld EXCEPT !.out = "NoSuchEntity"]
        /\ \A R \in RemoveTypes :
              remove(TheWorld, e, R) = [TheWorld EXCEPT !.out = "NoSuchEntity"]
        /\ \A t \in Types : get(TheWorld, e, t).out = "NoSuchEntity"
        /\ world_entity(TheWorld, e) = "NoSuchEntity"
        /\ query_one(TheWorld, e) = "NoSuchEntity"

C6_NeverAgain ==
    \A e \in EntityIds :
        (contains(entities', e) /\ ~contains(entities, e)) => e > next_entity

\* C6: once an entity is despawned, every operation that takes it returns
\* NoSuchEntity and leaves the world as it is, contains is false, and no
\* entity that becomes live later is equal to it.
C6_DespawnedStaysGone == [](C6_NoSuchEntity) /\ [][C6_NeverAgain]_vars

\* Entity 1 had a component of type 1 and was despawned, entity 2 is live.
C6_Witness ==
    /\ Gone(1)
    /\ dropped[1] = 1
    /\ removed(TheWorld, 1) = <<1>>
    /\ contains(entities, 2)

\* The entities other than e are in w what they are now, but for the one in
\* the last row of the archetype of e, which may be in the row of e.
OthersUntouched(w, e) ==
    \A f \in DOMAIN entities \ {e} :
        /\ contains(w.entities, f)
        /\ \A t \in Types : get(w, f, t) = get(TheWorld, f, t)
        /\ TypeSet(ArchetypeOf(w, f)) = TypeSet(ArchetypeOf(TheWorld, f))
        /\ \/ w.entities[f] = entities[f]
           \/ /\ entities[f].archetype = entities[e].archetype
              /\ entities[f].index = ArchLen(ArchetypeOf(TheWorld, e)) - 1
              /\ w.entities[f] = entities[e]

\* C7: insert, remove and despawn of E change no type set and no value of
\* another entity; they may move the entity of the last row of the archetype
\* E was in to the row E was in.
C7_OthersUntouched ==
    \A e \in DOMAIN entities :
        /\ OthersUntouched(despawn(TheWorld, e), e)
        /\ \A tys \in BundleTypes :
              OthersUntouched(insert(TheWorld, e, MakeBundle(tys, next_value)), e)
        /\ \A R \in RemoveTypes : OthersUntouched(remove(TheWorld, e, R), e)

\* Entities 1 and 2 are rows 0 and 1 of one archetype, and the remove of a
\* component of entity 1 moves entity 2 to row 0 with its value.
C7_Witness ==
    /\ DOMAIN entities = {1, 2}
    /\ entities[1].archetype = entities[2].archetype
    /\ entities[1].index = 0
    /\ entities[2].index = 1
    /\ components[2] = (1 :> 2)
    /\ LET w == remove(TheWorld, 1, <<1>>)
       IN  /\ w.out = "Ok"
           /\ w.entities[2].index = 0
           /\ get(w, 2, 1).val = 2

\* The value v is a component of a live entity.
Held(v) ==
    \E e \in DOMAIN components : \E t \in DOMAIN components[e] : components[e][t] = v

Disposals(v) == dropped[v] + moved_out[v]

\* C8: a value moved into the world is a component of a live entity until it
\* is disposed of, and it is disposed of once: dropped by the world or handed
\* to the caller by remove, not both and not twice.
C8_DisposedExactlyOnce ==
    \A v \in Values :
        /\ Disposals(v) <= 1
        /\ v <= next_value => (Held(v) <=> Disposals(v) = 0)
        /\ v > next_value => Disposals(v) = 0

\* Of the three values of the only entity ever made, the first was dropped
\* when the second overwrote it, the second was migrated and then handed
\* back by a remove, the third was migrated and is still there.
C8_Witness ==
    /\ next_entity = 1
    /\ contains(entities, 1)
    /\ dropped[1] = 1
    /\ moved_out[2] = 1
    /\ Held(3)
    /\ get(TheWorld, 1, 2).val = 3

\* C9: removed::<T>() holds the entities that lost T by despawn, remove or
\* clear since the last clear_trackers(), as often as they lost it; spawn and
\* insert add nothing.
C9_RemovedLog ==
    \A t \in Types : \A e \in EntityIds :
        Count(removed(TheWorld, t), e) = removals[t][e]

\* The only entity ever made lost its type 1 by a remove, got it again and
\* had it overwritten: it is once in removed::<1>().
C9_Witness ==
    /\ next_entity = 1
    /\ contains(entities, 1)
    /\ moved_out[1] = 1
    /\ dropped[2] = 1
    /\ get(TheWorld, 1, 1).val = 3
    /\ removed(TheWorld, 1) = <<1>>

\* C10: clear() leaves no live entity and no row, appends every live entity
\* to removed::<T>() for the types T it had, and keeps the archetypes, the
\* index and the archetype generation.
C10_Clear ==
    LET w == clear(TheWorld)
    IN  /\ \A e \in EntityIds : ~contains(w.entities, e)
        /\ DOMAIN w.archetypes = DOMAIN archetypes
        /\ \A a \in DOMAIN archetypes :
              /\ ArchLen(w.archetypes[a]) = 0
              /\ w.archetypes[a].types = archetypes[a].types
        /\ w.index = index
        /\ w.archetype_generation = archetype_generation
        /\ \A t \in Types :
              /\ Len(w.removed_components[t]) >= Len(removed_components[t])
              /\ SubSeq(w.removed_components[t], 1, Len(removed_components[t]))
                    = removed_components[t]
              /\ \A e \in EntityIds :
                    Count(w.removed_components[t], e) =
                        Count(removed_components[t], e)
                        + (IF e \in DOMAIN components /\ t \in DOMAIN components[e]
                           THEN 1 ELSE 0)

\* Two entities live in two archetypes that share type 1; clear() empties
\* both, logs both entities for type 1 and keeps the three archetypes.
C10_Witness ==
    /\ DOMAIN entities = {1, 2}
    /\ entities[1].archetype # entities[2].archetype
    /\ 1 \in DOMAIN components[1] \cap DOMAIN components[2]
    /\ removed(TheWorld, 1) = <<>>
    /\ LET w == clear(TheWorld)
       IN  /\ DOMAIN w.entities = {}
           /\ Len0(w.archetypes) = 3
           /\ Range(removed(w, 1)) = {1, 2}

\* A step moves the generation up, and by one at least if it adds an archetype.
C11_Step ==
    /\ archetype_generation' >= archetype_generation
    /\ Len0(archetypes') > Len0(archetypes) =>
           archetype_generation' > archetype_generation

\* What an operation does to the generation: more if it made an archetype,
\* the same if it made none.
GenerationFollows(w) ==
    /\ w.archetype_generation >= archetype_generation
    /\ Len0(w.archetypes) > Len0(archetypes) =>
           w.archetype_generation > archetype_generation
    /\ Len0(w.archetypes) = Len0(archetypes) =>
           w.archetype_generation = archetype_generation

C11_Operations ==
    /\ \A tys \in BundleTypes :
          LET w == spawn_as_entity(TheWorld, next_entity + 1,
                                   MakeBundle(tys, next_value))
          IN  /\ GenerationFollows(w)
              /\ Sort(tys) \in DOMAIN index =>
                    w.archetype_generation = archetype_generation
              /\ Sort(tys) \notin DOMAIN index =>
                    w.archetype_generation > archetype_generation
    /\ \A tys \in BundleTypes : GenerationFollows(reserve_inner(TheWorld, tys))
    /\ \A e \in DOMAIN entities :
          /\ \A tys \in BundleTypes :
                GenerationFollows(insert(TheWorld, e, MakeBundle(tys, next_value)))
          /\ \A R \in RemoveTypes : GenerationFollows(remove(TheWorld, e, R))

\* C11: archetypes_generation() never decreases; it increases in every
\* operation that makes a new archetype (spawn, spawn_batch/reserve, insert,
\* remove) and stays equal when a spawn targets a type set that has one.
C11_GenerationMonotone == [](C11_Operations) /\ [][C11_Step]_vars

\* Two entities were spawned with type 1, the second without a change of
\* the generation, and the first then got type 2, which made it 2.
C11_Witness ==
    /\ DOMAIN components = {1, 2}
    /\ components[1] = (1 :> 1) @@ (2 :> 3)
    /\ components[2] = (1 :> 2)
    /\ Len0(archetypes) = 3
    /\ archetype_generation = 2

\* C12: the archetype of an entity depends on the set of its types only:
\* live entities with the same types are in the same archetype, spawn((a,b))
\* and spawn((b,a)) reach the same archetype, and so do spawn((a,)) then
\* insert of b and spawn((b,)) then insert of a.
C12_OrderIndependent ==
    LET e1 == next_entity + 1
        e2 == next_entity + 2
    IN  /\ \A e, f \in DOMAIN entities :
              DOMAIN components[e] = DOMAIN components[f] =>
                  entities[e].archetype = entities[f].archetype
        /\ \A tys, sty \in BundleTypes : Range(tys) = Range(sty) =>
              LET w1 == spawn_as_entity(TheWorld, e1, MakeBundle(tys, next_value))
                  w2 == spawn_as_entity(w1, e2,
                                        MakeBundle(sty, next_value + Len(tys)))
              IN  w2.entities[e1].archetype = w2.entities[e2].archetype
        /\ \A a, b \in StoredTypes : a # b =>
              LET w1 == spawn_as_entity(TheWorld, e1, MakeBundle(<<a>>, next_value))
                  w2 == insert(w1, e1, MakeBundle(<<b>>, next_value + 1))
                  w3 == spawn_as_entity(w2, e2, MakeBundle(<<b>>, next_value + 2))
                  w4 == insert(w3, e2, MakeBundle(<<a>>, next_value + 3))
              IN  /\ w4.out = "Ok"
                  /\ w4.entities[e1].archetype = w4.entities[e2].archetype
                  /\ TypeSet(ArchetypeOf(w4, e1)) = {a, b}

\* The only entity got type 1 by spawn and type 2 by insert; an entity that
\* gets type 2 by spawn and type 1 by insert joins it in its archetype,
\* passing through an archetype that is made for it.
C12_Witness ==
    /\ DOMAIN entities = {1}
    /\ components[1] = (1 :> 1) @@ (2 :> 2)
    /\ ArchetypeWith({1}) = 1
    /\ ArchetypeWith({2}) = 0 - 1
    /\ LET w3 == spawn_as_entity(TheWorld, 2, MakeBundle(<<2>>, next_value))
           w4 == insert(w3, 2, MakeBundle(<<1>>, next_value + 1))
       IN  /\ w3.entities[2].archetype = 3
           /\ w4.entities[2] = [archetype |-> entities[1].archetype, index |-> 1]

\* C13: an insert of types the entity has overwrites in place: get yields the
\* new values, the entity keeps its archetype and row, the added bits of the
\* overwritten types are what they were and their mutated bits are set.
C13_OverwriteInPlace ==
    \A e \in DOMAIN entities : \A tys \in BundleTypes :
        (tys # <<>> /\ Range(tys) \subseteq DOMAIN components[e]) =>
            LET bundle == MakeBundle(tys, next_value)
                w == insert(TheWorld, e, bundle)
                was == ArchetypeOf(TheWorld, e).rows[entities[e].index]
                now == ArchetypeOf(w, e).rows[w.entities[e].index]
            IN  /\ w.out = "Ok"
                /\ w.entities[e] = entities[e]
                /\ w.archetype_generation = archetype_generation
                /\ \A t \in Range(tys) :
                      /\ get(w, e, t) = [out |-> "Ok", val |-> BundleMap(bundle)[t]]
                      /\ now.added[t] = was.added[t]
                      /\ now.mutated[t] = TRUE

\* The only entity was spawned with a value of type 1, the trackers were
\* cleared, and a second value of type 1 overwrote the first: the added bit
\* is not set and the mutated bit is.
C13_Witness ==
    /\ next_entity = 1
    /\ contains(entities, 1)
    /\ components[1] = (1 :> 2)
    /\ dropped[1] = 1
    /\ entities[1] = [archetype |-> 1, index |-> 0]
    /\ archetypes[1].rows[0].added[1] = FALSE
    /\ archetypes[1].rows[0].mutated[1] = TRUE

\* C14: the index maps every sorted vector of distinct type ids it knows to
\* one archetype, which has these types, and every archetype is the one the
\* index names for its types, so that no two have the same types; archetype
\* 0 is there, has no types, and holds the entities without components.
C14_IndexUnique ==
    /\ 0 \in DOMAIN archetypes
    /\ archetypes[0].types = <<>>
    /\ <<>> \in DOMAIN index
    /\ index[<<>>] = 0
    /\ \A ids \in DOMAIN index :
          /\ Sort(ids) = ids
          /\ Cardinality(Range(ids)) = Len(ids)
          /\ index[ids] \in DOMAIN archetypes
          /\ archetypes[index[ids]].types = ids
    /\ \A a \in DOMAIN archetypes :
          /\ archetypes[a].types \in DOMAIN index
          /\ index[archetypes[a].types] = a
    /\ \A a, b \in DOMAIN archetypes :
          TypeSet(archetypes[a]) = TypeSet(archetypes[b]) => a = b
    /\ \A e \in DOMAIN components :
          DOMAIN components[e] = {} => entities[e].archetype = 0

\* The four archetypes of two types are there, one of them made by a remove,
\* and an entity that lost its only component lives in archetype 0.
C14_Witness ==
    /\ Len0(archetypes) = 4
    /\ DOMAIN entities = {1, 2}
    /\ DOMAIN components[2] = {}
    /\ entities[2].archetype = 0
    /\ moved_out[1] = 1
    /\ moved_out[3] = 1

\* The entities a SpawnBatchIter has yielded and those its drop will make
BatchEntities ==
    (next_entity - batch.yielded + 1)..(next_entity + batch.remaining)

\* The step that drops the SpawnBatchIter makes what the consumer did not pull.
C15_Step ==
    (batch.active /\ ~batch'.active) =>
        /\ next_entity' = next_entity + batch.remaining
        /\ Cardinality(BatchEntities) = batch.yielded + batch.remaining
        /\ DOMAIN entities' = DOMAIN entities \cup BatchEntities
        /\ \A e \in BatchEntities :
              /\ contains(entities', e)
              /\ entities'[e].archetype = batch.archetype_id
              /\ TypeSet(archetypes'[entities'[e].archetype]) = Range(batch.tys)
              /\ DOMAIN components'[e] = Range(batch.tys)
        /\ C1_RowsMatchDirectory'
        /\ C2_DirectoryMatchesComponents'
        /\ C3_GetYieldsLastWritten'

\* C15: when the iterator of spawn_batch over n bundles is dropped after k < n
\* entities were pulled, the drop spawns the other n - k: the world then has
\* the n new entities live, and directory and archetypes agree.
C15_DropFinishes == [][C15_Step]_vars

\* Of a batch of two bundles of type 1 one was pulled and one is left, and
\* the drop makes entity 2 at row 1 with the value 2.
C15_Witness ==
    /\ batch.active
    /\ batch.yielded = 1
    /\ batch.remaining = 1
    /\ batch.tys = <<1>>
    /\ DOMAIN entities = {1}
    /\ LET st == drain([w |-> TheWorld, archetype_id |-> batch.archetype_id,
                        tys |-> batch.tys, remaining |-> batch.remaining,
                        next_entity |-> next_entity, next_value |-> next_value,
                        components |-> components])
       IN  /\ DOMAIN st.w.entities = {1, 2}
           /\ st.w.entities[2] = [archetype |-> batch.archetype_id, index |-> 1]
           /\ get(st.w, 2, 1) = [out |-> "Ok", val |-> 2]

C17_GetErrors ==
    /\ \A e \in EntityIds : \A t \in Types :
          LET r == get_ref(TheWorld, borrow_state, e, t)
              m == get_mut(TheWorld, borrow_state, e, t)
              live == e \in DOMAIN components
              has == live /\ t \in DOMAIN components[e]
              column == <<entities[e].archetype, t>>
          IN  /\ (r.out = "NoSuchEntity") <=> ~live
              /\ (m.out = "NoSuchEntity") <=> ~live
              /\ (r.out = "MissingComponent") <=> (live /\ ~has)
              /\ (m.out = "MissingComponent") <=> (live /\ ~has)
              /\ (live /\ entities[e].archetype = 0) =>
                    (r.out = "MissingComponent" /\ m.out = "MissingComponent")
              /\ has =>
                    /\ r.out \in {"Ok", "panic"}
                    /\ m.out \in {"Ok", "panic"}
                    /\ r.out = "Ok" => r.val = components[e][t]
                    /\ m.out = "Ok" => m.val = components[e][t]
                    /\ Counter(borrow_state, column) = 0 =>
                          (r.out = "Ok" /\ m.out = "Ok")
    /\ \A e, f \in DOMAIN entities :
          DOMAIN components[e] # DOMAIN components[f] =>
              entities[e].archetype # entities[f].archetype

\* Entity 1 has the types 1 and 2 and entity 2 has type 1 only: they are in
\* two archetypes, get of type 1 gives each its own value, and get of type 2
\* on entity 2 is MissingComponent.
C17_Witness ==
    /\ DOMAIN entities = {1, 2}
    /\ guards = <<>>
    /\ entities[1].archetype # entities[2].archetype
    /\ get_ref(TheWorld, borrow_state, 1, 1).val = 1
    /\ get_ref(TheWorld, borrow_state, 1, 2).val = 2
    /\ get_ref(TheWorld, borrow_state, 2, 1).val = 3
    /\ get_ref(TheWorld, borrow_state, 2, 2).out = "MissingComponent"
    /\ get_mut(TheWorld, borrow_state, 2, 2).out = "MissingComponent"

\* The guards alive on a column
GuardsOn(column, exclusive) ==
    {i \in DOMAIN guards :
        /\ <<guards[i].archetype, guards[i].ty>> = column
        /\ guards[i].exclusive = exclusive}

\* The counters are what the guards alive make them, a RefMut is alone on
\* its column, and get and get_mut panic or succeed by the guards of the column.
C18_Guards ==
    /\ \A i \in DOMAIN guards :
          LET column == <<guards[i].archetype, guards[i].ty>>
          IN  /\ guards[i].exclusive =>
                    GuardsOn(column, TRUE) \cup GuardsOn(column, FALSE) = {i}
              /\ Counter(borrow_state, column) =
                    IF guards[i].exclusive THEN 0 - 1
                    ELSE Cardinality(GuardsOn(column, FALSE))
    /\ \A column \in DOMAIN borrow_state :
          GuardsOn(column, TRUE) \cup GuardsOn(column, FALSE) # {}
    /\ \A e \in DOMAIN entities : \A t \in DOMAIN components[e] :
          LET column == <<entities[e].archetype, t>>
              r == get_ref(TheWorld, borrow_state, e, t)
              m == get_mut(TheWorld, borrow_state, e, t)
          IN  /\ GuardsOn(column, TRUE) # {} => (r.out = "panic" /\ m.out = "panic")
              /\ GuardsOn(column, FALSE) # {} => (r.out = "Ok" /\ m.out = "panic")
              /\ GuardsOn(column, TRUE) \cup GuardsOn(column, FALSE) = {} =>
                    (r.out = "Ok" /\ m.out = "Ok")

\* When the last guard goes, every component can be borrowed exclusively.
C18_Released ==
    (guards # <<>> /\ guards' = <<>>) =>
        \A e \in DOMAIN entities : \A t \in DOMAIN components[e] :
            get_mut(TheWorld, borrow_state, e, t)'.out = "Ok"

\* C18: borrows are counted per column of an archetype: while a RefMut of a
\* column is alive, get and get_mut of that type panic for every entity of
\* the archetype; while a Ref is alive, get_mut panics and get succeeds; no
\* RefMut is alive together with another guard of its column; when all guards
\* are dropped, get_mut succeeds again.
C18_BorrowsPerColumn == [](C18_Guards) /\ [][C18_Released]_vars

\* Entities 1 and 2 are rows of one archetype and a RefMut of type 1 of
\* entity 1 is alive: get and get_mut of type 1 of entity 2 panic.
C18_Witness ==
    /\ DOMAIN entities = {1, 2}
    /\ entities[1].archetype = entities[2].archetype
    /\ guards = <<[archetype |-> entities[1].archetype, ty |-> 1,
                   entity |-> 1, exclusive |-> TRUE]>>
    /\ get_ref(TheWorld, borrow_state, 2, 1).out = "panic"
    /\ get_mut(TheWorld, borrow_state, 2, 1).out = "panic"

\* C19: a traversal of iter() yields every live entity once, those without
\* components too, and nothing else: as many items as there are live
\* entities, none of them a despawned entity.
C19_IterYieldsLive ==
    LET ids == iter_collect(TheWorld, iter_new)
    IN  /\ Len(ids) = Cardinality(DOMAIN entities)
        /\ Range(ids) = DOMAIN components
        /\ \A e \in DOMAIN components : Count(ids, e) = 1
        /\ \A e \in EntityIds : Gone(e) => Count(ids, e) = 0

\* Entity 1 had a component and was despawned, entity 2 has no components:
\* the traversal yields entity 2 and nothing else.
C19_Witness ==
    /\ Gone(1)
    /\ dropped[1] = 1
    /\ contains(entities, 2)
    /\ entities[2].archetype = 0
    /\ iter_collect(TheWorld, iter_new) = <<2>>

\* C20: clear_trackers() makes every added and mutated bit false and
\* removed::<T>() empty for every T, and leaves the live entities, their
\* locations, their values, the archetypes and the generation as they are.
C20_ClearTrackers ==
    LET w == clear_trackers(TheWorld)
    IN  /\ \A a \in DOMAIN w.archetypes : \A r \in DOMAIN w.archetypes[a].rows :
              \A t \in TypeSet(w.archetypes[a]) :
                  /\ w.archetypes[a].rows[r].added[t] = FALSE
                  /\ w.archetypes[a].rows[r].mutated[t] = FALSE
        /\ \A t \in Types : removed(w, t) = <<>>
        /\ w.entities = entities
        /\ w.index = index
        /\ w.archetype_generation = archetype_generation
        /\ w.dropped = dropped
        /\ DOMAIN w.archetypes = DOMAIN archetypes
        /\ \A a \in DOMAIN archetypes :
              /\ w.archetypes[a].types = archetypes[a].types
              /\ DOMAIN w.archetypes[a].rows = DOMAIN archetypes[a].rows
              /\ \A r \in DOMAIN archetypes[a].rows :
                    /\ w.archetypes[a].rows[r].id = archetypes[a].rows[r].id
                    /\ w.archetypes[a].rows[r].val = archetypes[a].rows[r].val
        /\ \A e \in EntityIds : \A t \in Types : get(w, e, t) = get(TheWorld, e, t)

\* Entity 1 had type 1 and was despawned, entity 2 was spawned with type 1,
\* and clear_trackers() was called since: the log of type 1 is empty and the
\* bits of entity 2 are false.
C20_Witness ==
    /\ Gone(1)
    /\ dropped[1] = 1
    /\ contains(entities, 2)
    /\ components[2] = (1 :> 2)
    /\ removed(TheWorld, 1) = <<>>
    /\ ArchetypeOf(TheWorld, 2).rows[entities[2].index].added[1] = FALSE
    /\ ArchetypeOf(TheWorld, 2).rows[entities[2].index].mutated[1] = FALSE


\* C21: spawn_as_entity called with a handle that is live is refused: the
\* world is left as it was, the entity has exactly one row, and no row holds
\* an entity whose directory entry is another row.
C21_Step ==
    \A entity \in DOMAIN entities, tys \in BundleTypes :
        SpawnAsEntity(entity, tys) =>
            /\ UNCHANGED world_vars
            /\ Cardinality({p \in AllRows(TheWorld)' :
                    archetypes'[p[1]].rows[p[2]].id = entity}) = 1
            /\ RowsAgree(TheWorld)'

C21_CollisionRefused == [][C21_Step]_vars

\* The row of a live entity
RowOf(w, e) == ArchetypeOf(w, e).rows[w.entities[e].index]

\* C22: when insert or remove moves an entity to another archetype, every
\* component the entity keeps and the operation does not name has in the new
\* row the added bit and the mutated bit it had in the old row, and every
\* component written by the bundle of the insert has both bits set in the
\* new row.
C22_BitsOnMigration ==
    \A e \in DOMAIN entities :
        /\ \A tys \in BundleTypes :
              LET w == insert(TheWorld, e, MakeBundle(tys, next_value))
              IN  w.entities[e].archetype # entities[e].archetype =>
                    /\ w.out = "Ok"
                    /\ \A t \in DOMAIN components[e] \ Range(tys) :
                          /\ RowOf(w, e).added[t] = RowOf(TheWorld, e).added[t]
                          /\ RowOf(w, e).mutated[t] = RowOf(TheWorld, e).mutated[t]
                    /\ \A t \in Range(tys) :
                          /\ RowOf(w, e).added[t]
                          /\ RowOf(w, e).mutated[t]
        /\ \A R \in RemoveTypes :
              LET w == remove(TheWorld, e, R)
              IN  w.entities[e].archetype # entities[e].archetype =>
                    /\ w.out = "Ok"
                    /\ \A t \in DOMAIN components[e] \ Range(R) :
                          /\ RowOf(w, e).added[t] = RowOf(TheWorld, e).added[t]
                          /\ RowOf(w, e).mutated[t] = RowOf(TheWorld, e).mutated[t]

\* The only entity ever made was spawned with type 1, overwritten in place
\* after clear_trackers and then given type 2: in the row of the archetype
\* {1, 2} type 1 is mutated and not added, type 2 is added and mutated.
C22_Witness ==
    /\ next_entity = 1
    /\ 1 \in DOMAIN entities
    /\ TypeSet(ArchetypeOf(TheWorld, 1)) = {1, 2}
    /\ ~RowOf(TheWorld, 1).added[1]
    /\ RowOf(TheWorld, 1).mutated[1]
    /\ RowOf(TheWorld, 1).added[2]
    /\ RowOf(TheWorld, 1).mutated[2]
    /\ components[1] = (1 :> 2) @@ (2 :> 3)

\* C23 as stated: an insert that overwrites a type the entity has never newly
\* sets the added bit of that type, whether the entity stays in its archetype
\* or is moved because the bundle also has types that are new to it; the
\* added bits of the new types are set.
C23_OverwriteNeverAdds ==
    \A e \in DOMAIN entities : \A tys \in BundleTypes :
        LET w == insert(TheWorld, e, MakeBundle(tys, next_value))
        IN  /\ w.out = "Ok"
            /\ \A t \in Range(tys) \cap DOMAIN components[e] :
                  RowOf(w, e).added[t] = RowOf(TheWorld, e).added[t]
            /\ \A t \in Range(tys) \ DOMAIN components[e] : RowOf(w, e).added[t]

\* C23, amended: an insert that overwrites a type the entity has leaves the
\* added bit of that type as it was when the entity stays in its archetype;
\* when the bundle also has a type that is new to the entity, so that the
\* entity is moved, the added bit of every type of the bundle is set, the
\* overwritten ones included.
C23_OverwriteAddsOnMigration ==
    \A e \in DOMAIN entities : \A tys \in BundleTypes :
        LET w == insert(TheWorld, e, MakeBundle(tys, next_value))
        IN  /\ w.out = "Ok"
            /\ IF Range(tys) \subseteq DOMAIN components[e]
               THEN /\ w.entities[e] = entities[e]
                    /\ \A t \in Range(tys) :
                          RowOf(w, e).added[t] = RowOf(TheWorld, e).added[t]
               ELSE /\ w.entities[e].archetype # entities[e].archetype
                    /\ \A t \in Range(tys) : RowOf(w, e).added[t]

\* The only entity has type 1 with the added bit cleared and lacks type 2;
\* an insert of the types 1 and 2, for which the caller has values left,
\* moves it and sets the added bit of both.
C23_Witness ==
    /\ next_entity = 1
    /\ 1 \in DOMAIN entities
    /\ DOMAIN components[1] = {1}
    /\ ~RowOf(TheWorld, 1).added[1]
    /\ next_value + 2 <= MaxValues
    /\ LET w == insert(TheWorld, 1, MakeBundle(<<1, 2>>, next_value))
       IN  /\ w.entities[1].archetype # entities[1].archetype
           /\ RowOf(w, 1).added[1]
           /\ RowOf(w, 1).added[2]

\* C24 as stated: a remove::<R>(E) that fails with MissingComponent leaves the
\* whole world as it was, the archetypes, the index and the generation
\* included.
C24_FailedRemoveUnchanged ==
    \A e \in DOMAIN entities : \A R \in RemoveTypes :
        LET w == remove(TheWorld, e, R)
        IN  w.out = "MissingComponent" =>
            /\ w.entities = entities
            /\ w.removed_components = removed_components
            /\ w.dropped = dropped
            /\ w.archetypes = archetypes
            /\ w.index = index
            /\ w.archetype_generation = archetype_generation

\* C24, amended: a remove::<R>(E) that fails with MissingComponent leaves the
\* directory, the removed log, every row of every archetype and every value
\* as they were; if the index had no archetype for the types of E that are
\* not in R, that archetype is made, without rows, as the last one, it is
\* entered in the index and the generation is one more; otherwise the
\* archetypes, the index and the generation are as they were.
C24_FailedRemoveMakesArchetype ==
    \A e \in DOMAIN entities : \A R \in RemoveTypes :
        LET w == remove(TheWorld, e, R)
            rest == SelectSeq(ArchetypeOf(TheWorld, e).types,
                              LAMBDA t : t \notin Range(R))
        IN  w.out = "MissingComponent" =>
            /\ w.entities = entities
            /\ w.removed_components = removed_components
            /\ w.dropped = dropped
            /\ w.bundle = <<>>
            /\ \A a \in DOMAIN archetypes : w.archetypes[a] = archetypes[a]
            /\ IF rest \in DOMAIN index
               THEN /\ w.archetypes = archetypes
                    /\ w.index = index
                    /\ w.archetype_generation = archetype_generation
               ELSE /\ DOMAIN w.archetypes = 0..Len0(archetypes)
                    /\ w.archetypes[Len0(archetypes)] = ArchetypeNew(rest)
                    /\ w.index = (rest :> Len0(archetypes)) @@ index
                    /\ w.archetype_generation = archetype_generation + 1

\* The only entity ever made is in archetype 1 with the two values it was
\* spawned with, nothing was taken out or dropped, and archetype 2 has the
\* type 1 alone and no row: it was made by a remove of the types 2 and 3
\* that failed.
C24_Witness ==
    /\ ~batch.active
    /\ next_entity = 1
    /\ next_value = 2
    /\ 1 \in DOMAIN entities
    /\ entities[1] = [archetype |-> 1, index |-> 0]
    /\ archetypes[1].types = <<1, 2>>
    /\ DOMAIN archetypes = 0..2
    /\ archetypes[2] = ArchetypeNew(<<1>>)
    /\ archetype_generation = 2
    /\ \A v \in Values : moved_out[v] = 0 /\ dropped[v] = 0

\* C25: every call of index2 made by insert and remove meets its assertions:
\* for every live entity, no insert of any bundle and no remove of any type
\* list, the empty one included, panics.
C25_Index2NeverPanics ==
    \A e \in DOMAIN entities :
        /\ \A tys \in BundleTypes :
              insert(TheWorld, e, MakeBundle(tys, next_value)).out # "panic"
        /\ \A R \in RemoveTypes :
              remove(TheWorld, e, R).out # "panic"

\* The generation is the number of archetypes minus one, and the index is a
\* one-to-one map from its keys onto the archetype ids 0..len-1.
C26_State ==
    /\ archetype_generation = Len0(archetypes) - 1
    /\ DOMAIN archetypes = 0..(Len0(archetypes) - 1)
    /\ Cardinality(DOMAIN index) = Len0(archetypes)
    /\ {index[k] : k \in DOMAIN index} = DOMAIN archetypes

\* A step keeps every archetype at its id with its types and every entry of
\* the index, and appends at most one archetype, with one new entry of the
\* index and one more generation.
C26_Step ==
    /\ \A a \in DOMAIN archetypes :
          /\ a \in DOMAIN archetypes'
          /\ archetypes'[a].types = archetypes[a].types
    /\ \A k \in DOMAIN index : k \in DOMAIN index' /\ index'[k] = index[k]
    /\ Len0(archetypes') - Len0(archetypes) \in {0, 1}
    /\ Cardinality(DOMAIN index') - Cardinality(DOMAIN index)
          = Len0(archetypes') - Len0(archetypes)
    /\ archetype_generation' - archetype_generation
          = Len0(archetypes') - Len0(archetypes)

\* C26: in every reachable state archetypes_generation() is the number of
\* archetypes minus one and the index has exactly one key per archetype, its
\* values being 0..archetypes.len()-1; archetypes are only appended, never
\* removed or reordered, and every append adds one entry to the index and
\* one to the counter.
C26_GenerationCountsArchetypes == [](C26_State) /\ [][C26_Step]_vars

\* The only entity ever made was spawned with type 1, got type 2 by an
\* insert and gave type 1 back in a remove: spawn_as_entity, insert and
\* remove made one archetype each, and the generation is 3.
C26_Witness ==
    /\ next_entity = 1
    /\ 1 \in DOMAIN entities
    /\ archetype_generation = 3
    /\ archetypes[1].types = <<1>>
    /\ archetypes[2].types = <<1, 2>>
    /\ archetypes[3].types = <<2>>
    /\ entities[1].archetype = 3
    /\ moved_out[1] = 1

=============================================================================
